---------------------------- MODULE Spec2Model ----------------------------
(***************************************************************************)
(* Model of internal/postgresql/parse.go: the translation of the concrete  *)
(* syntax tree of pg_query_go into the normalized ast of sqlc.             *)
(*                                                                         *)
(* Go values are modelled as follows.                                      *)
(*   string        a TLA+ string; the zero value is ""                     *)
(*   *T            a sequence of length 0 (nil) or 1 (pointer to a value)  *)
(*   error         a sequence of length 0 (nil) or 1 (the message)         *)
(*   interface     a record with a "kind" field naming the dynamic type    *)
(*   nodes.List    the sequence of its Items                               *)
(*   panic         an outcome of its own (a run-time fault, no return)     *)
(***************************************************************************)
EXTENDS Integers, Sequences, FiniteSets, TLC

VARIABLES pc, input, tree, idx, stmts, ret

vars == <<pc, input, tree, idx, stmts, ret>>

(* Bounds of the model. *)
MaxParts == 4
MaxElts == 2
MaxStmts == 2

SeqsUpTo(S, n) == UNION {[1..k -> S] : k \in 0..n}

Nil == <<>>
Ptr(v) == <<v>>
Opt(S) == {Nil} \cup {Ptr(v) : v \in S}

(***************************************************************************)
(* Concrete syntax nodes of the external parser (package nodes).           *)
(***************************************************************************)
String(s) == [kind |-> "String", Str |-> s]
A_Star == [kind |-> "A_Star"]
RangeVar(c, s, r) == [kind |-> "RangeVar", Catalogname |-> c, Schemaname |-> s, Relname |-> r]
List(items) == [kind |-> "List", Items |-> items]

(***************************************************************************)
(* stringSlice: the Str of every item that is a nodes.String, in order;    *)
(* items of any other type are passed over.                                *)
(***************************************************************************)
RECURSIVE stringSlice(_)
stringSlice(items) ==
  IF items = <<>> THEN <<>>
  ELSE IF Head(items).kind = "String"
       THEN <<Head(items).Str>> \o stringSlice(Tail(items))
       ELSE stringSlice(Tail(items))

(* strings.Join *)
RECURSIVE Join(_, _)
Join(elems, sep) ==
  IF elems = <<>> THEN ""
  ELSE IF Len(elems) = 1 THEN elems[1]
  ELSE elems[1] \o sep \o Join(Tail(elems), sep)

join(items, sep) == Join(stringSlice(items), sep)

(* ast.TableName: three string fields, "" when never assigned. *)
TableName(c, s, n) == [Catalog |-> c, Schema |-> s, Name |-> n]

Deref(p, zero) == IF p = Nil THEN zero ELSE p[1]

(* parseTableNameList with the length switch off by one: every list of three
   or more parts is taken as catalog.schema.name. *)
parseTableNameList_AcceptsLong(items) ==
  LET parts == stringSlice(items) IN
  CASE Len(parts) = 1 -> [name |-> Ptr(TableName("", "", parts[1])), err |-> Nil]
    [] Len(parts) = 2 -> [name |-> Ptr(TableName("", parts[1], parts[2])), err |-> Nil]
    [] Len(parts) >= 3 -> [name |-> Ptr(TableName(parts[1], parts[2], parts[3])), err |-> Nil]
    [] OTHER -> [name |-> Nil, err |-> Ptr("invalid table name: " \o join(items, "."))]

(* The nodes.List case of parseTableName. *)
parseTableNameList(items) ==
  LET parts == stringSlice(items) IN
  CASE Len(parts) = 1 -> [name |-> Ptr(TableName("", "", parts[1])), err |-> Nil]
    [] Len(parts) = 2 -> [name |-> Ptr(TableName("", parts[1], parts[2])), err |-> Nil]
    [] Len(parts) = 3 -> [name |-> Ptr(TableName(parts[1], parts[2], parts[3])), err |-> Nil]
    [] OTHER -> [name |-> Nil, err |-> Ptr("invalid table name: " \o join(items, "."))]

(* parseTableNameRangeVar with the schema copied from the catalog field. *)
parseTableNameRangeVar_WrongField(n) ==
  [name |-> Ptr(TableName(Deref(n.Catalogname, ""), Deref(n.Catalogname, ""),
                          Deref(n.Relname, ""))),
   err |-> Nil]

(* The nodes.RangeVar case of parseTableName. *)
parseTableNameRangeVar(n) ==
  [name |-> Ptr(TableName(Deref(n.Catalogname, ""), Deref(n.Schemaname, ""),
                          Deref(n.Relname, ""))),
   err |-> Nil]

parseTableName(node) ==
  CASE node.kind = "List" -> parseTableNameList(node.Items)
    [] node.kind = "RangeVar" -> parseTableNameRangeVar(node)
    [] OTHER -> [name |-> Nil, err |-> Ptr("unexpected node type: nodes." \o node.kind)]

(***************************************************************************)
(* More concrete syntax nodes.  NilNode is the nil interface value.        *)
(***************************************************************************)
NilNode == [kind |-> "nil"]
Constraint(t) == [kind |-> "Constraint", Contype |-> t]
TypeNameNode(names) == [Names |-> names]
ColumnDefNode(c, t, cons) == [kind |-> "ColumnDef", Colname |-> c, TypeName |-> t, Constraints |-> cons]
AlterTableCmdNode(st, n, m, d) == [kind |-> "AlterTableCmd", Subtype |-> st, Name |-> n, MissingOk |-> m, Def |-> d]
AlterTableStmtNode(r, cmds) == [kind |-> "AlterTableStmt", Relation |-> r, Cmds |-> cmds]
CreateStmtNode(r, ine, elts) == [kind |-> "CreateStmt", Relation |-> r, IfNotExists |-> ine, TableElts |-> elts]
DropStmtNode(m, rt, objs) == [kind |-> "DropStmt", MissingOk |-> m, RemoveType |-> rt, Objects |-> objs]
SelectStmtNode == [kind |-> "SelectStmt"]
RawStmt(s) == [kind |-> "RawStmt", Stmt |-> s]

(***************************************************************************)
(* isNotNull is called by translate and is defined in another file of the  *)
(* package: true when the column's constraint list holds a NOT NULL or a   *)
(* PRIMARY KEY constraint.                                                 *)
(***************************************************************************)
isNotNull(d) ==
  \E k \in 1..Len(d.Constraints) :
    /\ d.Constraints[k].kind = "Constraint"
    /\ d.Constraints[k].Contype \in {"CONSTR_NOTNULL", "CONSTR_PRIMARY"}

(***************************************************************************)
(* The three places where translate builds an ast.ColumnDef.  Each         *)
(* dereferences d.Colname and d.TypeName: a nil pointer there is a panic.  *)
(***************************************************************************)
Panicked == [panic |-> TRUE]
astColumnDef(c, t, nn) == [Colname |-> c, TypeName |-> [Name |-> t], IsNotNull |-> nn]

(* the AT_AddColumn case *)
addColumnDef(d) ==
  IF d.Colname = Nil \/ d.TypeName = Nil THEN Panicked
  ELSE [panic |-> FALSE,
        def |-> astColumnDef(d.Colname[1], join(d.TypeName[1].Names, "."), isNotNull(d))]

(* alterColumnTypeDef leaving IsNotNull at its zero value. *)
alterColumnTypeDef_NoNotNull(d) ==
  IF d.Colname = Nil \/ d.TypeName = Nil THEN Panicked
  ELSE [panic |-> FALSE,
        def |-> astColumnDef(d.Colname[1], join(d.TypeName[1].Names, "."), FALSE)]

(* the AT_AlterColumnType case *)
alterColumnTypeDef(d) ==
  IF d.Colname = Nil \/ d.TypeName = Nil THEN Panicked
  ELSE [panic |-> FALSE,
        def |-> astColumnDef(d.Colname[1], join(d.TypeName[1].Names, "."), isNotNull(d))]

(* the nodes.ColumnDef case of the CREATE TABLE element loop *)
createColumnDef(n) ==
  IF n.Colname = Nil \/ n.TypeName = Nil THEN Panicked
  ELSE [panic |-> FALSE,
        def |-> astColumnDef(n.Colname[1], join(n.TypeName[1].Names, "."), isNotNull(n))]

astAlterTableCmd(st, n, m, d) == [Subtype |-> st, Name |-> n, MissingOk |-> m, Def |-> d]

(* translateCmd with the default case appending the command instead of
   skipping it. *)
translateCmd_KeepsUnsupported(cmd) ==
  CASE cmd.Subtype = "AT_AddColumn" ->
         IF cmd.Def.kind # "ColumnDef" THEN [out |-> "panic"]
         ELSE LET c == addColumnDef(cmd.Def) IN
              IF c.panic THEN [out |-> "panic"]
              ELSE [out |-> "item",
                    item |-> astAlterTableCmd("AT_AddColumn", cmd.Name, cmd.MissingOk, Ptr(c.def))]
    [] cmd.Subtype = "AT_AlterColumnType" ->
         IF cmd.Def.kind # "ColumnDef" THEN [out |-> "panic"]
         ELSE LET c == alterColumnTypeDef(cmd.Def) IN
              IF c.panic THEN [out |-> "panic"]
              ELSE [out |-> "item",
                    item |-> astAlterTableCmd("AT_AlterColumnType", cmd.Name, cmd.MissingOk, Ptr(c.def))]
    [] OTHER ->
         [out |-> "item", item |-> astAlterTableCmd(cmd.Subtype, cmd.Name, cmd.MissingOk, Nil)]

(***************************************************************************)
(* One iteration of the ALTER TABLE command loop on a nodes.AlterTableCmd. *)
(* out is "item" (appended), "skip" (continue) or "panic" (the type        *)
(* assertion cmd.Def.(nodes.ColumnDef) or a nil dereference failed).       *)
(***************************************************************************)
translateCmd(cmd) ==
  CASE cmd.Subtype = "AT_AddColumn" ->
         IF cmd.Def.kind # "ColumnDef" THEN [out |-> "panic"]
         ELSE LET c == addColumnDef(cmd.Def) IN
              IF c.panic THEN [out |-> "panic"]
              ELSE [out |-> "item",
                    item |-> astAlterTableCmd("AT_AddColumn", cmd.Name, cmd.MissingOk, Ptr(c.def))]
    [] cmd.Subtype = "AT_AlterColumnType" ->
         IF cmd.Def.kind # "ColumnDef" THEN [out |-> "panic"]
         ELSE LET c == alterColumnTypeDef(cmd.Def) IN
              IF c.panic THEN [out |-> "panic"]
              ELSE [out |-> "item",
                    item |-> astAlterTableCmd("AT_AlterColumnType", cmd.Name, cmd.MissingOk, Ptr(c.def))]
    [] cmd.Subtype = "AT_DropColumn" ->
         [out |-> "item", item |-> astAlterTableCmd("AT_DropColumn", cmd.Name, cmd.MissingOk, Nil)]
    [] cmd.Subtype = "AT_DropNotNull" ->
         [out |-> "item", item |-> astAlterTableCmd("AT_DropNotNull", cmd.Name, cmd.MissingOk, Nil)]
    [] cmd.Subtype = "AT_SetNotNull" ->
         [out |-> "item", item |-> astAlterTableCmd("AT_SetNotNull", cmd.Name, cmd.MissingOk, Nil)]
    [] OTHER -> [out |-> "skip"]

(* The ALTER TABLE command loop: items that are no AlterTableCmd are passed
   over; the first panic ends the loop. *)
RECURSIVE translateCmds(_)
translateCmds(cmds) ==
  IF cmds = <<>> THEN [panic |-> FALSE, items |-> <<>>]
  ELSE IF Head(cmds).kind # "AlterTableCmd" THEN translateCmds(Tail(cmds))
  ELSE LET c == translateCmd(Head(cmds)) IN
       IF c.out = "panic" THEN [panic |-> TRUE, items |-> <<>>]
       ELSE LET r == translateCmds(Tail(cmds)) IN
            IF r.panic THEN r
            ELSE IF c.out = "skip" THEN r
            ELSE [panic |-> FALSE, items |-> <<c.item>> \o r.items]

(* createCols leaving the loop at the first element that is no column
   definition. *)
RECURSIVE createCols_StopsAtOther(_)
createCols_StopsAtOther(elts) ==
  IF elts = <<>> THEN [panic |-> FALSE, cols |-> <<>>]
  ELSE IF Head(elts).kind # "ColumnDef" THEN [panic |-> FALSE, cols |-> <<>>]
  ELSE LET c == createColumnDef(Head(elts)) IN
       IF c.panic THEN [panic |-> TRUE, cols |-> <<>>]
       ELSE LET r == createCols_StopsAtOther(Tail(elts)) IN
            IF r.panic THEN r
            ELSE [panic |-> FALSE, cols |-> <<c.def>> \o r.cols]

(* The CREATE TABLE element loop: only nodes.ColumnDef elements give a
   column. *)
RECURSIVE createCols(_)
createCols(elts) ==
  IF elts = <<>> THEN [panic |-> FALSE, cols |-> <<>>]
  ELSE IF Head(elts).kind # "ColumnDef" THEN createCols(Tail(elts))
  ELSE LET c == createColumnDef(Head(elts)) IN
       IF c.panic THEN [panic |-> TRUE, cols |-> <<>>]
       ELSE LET r == createCols(Tail(elts)) IN
            IF r.panic THEN r
            ELSE [panic |-> FALSE, cols |-> <<c.def>> \o r.cols]

(* dropTables without the test of RemoveType: every object is resolved. *)
RECURSIVE dropTables_AnyKind(_, _)
dropTables_AnyKind(objs, removeType) ==
  IF objs = <<>> THEN [err |-> Nil, tables |-> <<>>]
  ELSE LET n == parseTableName(Head(objs)) IN
       IF n.err # Nil THEN [err |-> n.err, tables |-> <<>>]
       ELSE LET r == dropTables_AnyKind(Tail(objs), removeType) IN
            IF r.err # Nil THEN r
            ELSE [err |-> Nil, tables |-> <<n.name[1]>> \o r.tables]

(* The DROP object loop: with RemoveType OBJECT_TABLE every object goes
   through parseTableName and the first error ends the loop; with any other
   RemoveType no object is looked at. *)
RECURSIVE dropTables(_, _)
dropTables(objs, removeType) ==
  IF objs = <<>> THEN [err |-> Nil, tables |-> <<>>]
  ELSE IF removeType # "OBJECT_TABLE" THEN dropTables(Tail(objs), removeType)
  ELSE LET n == parseTableName(Head(objs)) IN
       IF n.err # Nil THEN [err |-> n.err, tables |-> <<>>]
       ELSE LET r == dropTables(Tail(objs), removeType) IN
            IF r.err # Nil THEN r
            ELSE [err |-> Nil, tables |-> <<n.name[1]>> \o r.tables]

(* What translate gives back: (node, err), or a panic. *)
Returns(n, e) == [panic |-> FALSE, node |-> n, err |-> e]
Panics == [panic |-> TRUE, node |-> Nil, err |-> Nil]

(* the nodes.AlterTableStmt case *)
translateAlterTableStmt(n) ==
  IF n.Relation = Nil THEN Panics
  ELSE LET name == parseTableName(n.Relation[1]) IN
       IF name.err # Nil THEN Returns(Nil, name.err)
       ELSE LET c == translateCmds(n.Cmds) IN
            IF c.panic THEN Panics
            ELSE Returns(Ptr([kind |-> "AlterTableStmt", Table |-> name.name[1], Cmds |-> c.items]), Nil)

(* the nodes.CreateStmt case *)
translateCreateStmt(n) ==
  IF n.Relation = Nil THEN Panics
  ELSE LET name == parseTableName(n.Relation[1]) IN
       IF name.err # Nil THEN Returns(Nil, name.err)
       ELSE LET c == createCols(n.TableElts) IN
            IF c.panic THEN Panics
            ELSE Returns(Ptr([kind |-> "CreateTableStmt", Name |-> name.name[1],
                              IfNotExists |-> n.IfNotExists, Cols |-> c.cols]), Nil)

(* translateDropStmt taking a DROP of anything but tables for an
   unsupported statement. *)
translateDropStmt_SkipsNonTable(n) ==
  IF n.RemoveType # "OBJECT_TABLE" THEN Returns(Nil, Nil)
  ELSE LET d == dropTables(n.Objects, n.RemoveType) IN
       IF d.err # Nil THEN Returns(Nil, d.err)
       ELSE Returns(Ptr([kind |-> "DropTableStmt", IfExists |-> n.MissingOk, Tables |-> d.tables]), Nil)

(* the nodes.DropStmt case *)
translateDropStmt(n) ==
  LET d == dropTables(n.Objects, n.RemoveType) IN
  IF d.err # Nil THEN Returns(Nil, d.err)
  ELSE Returns(Ptr([kind |-> "DropTableStmt", IfExists |-> n.MissingOk, Tables |-> d.tables]), Nil)

translate(node) ==
  CASE node.kind = "AlterTableStmt" -> translateAlterTableStmt(node)
    [] node.kind = "CreateStmt" -> translateCreateStmt(node)
    [] node.kind = "DropStmt" -> translateDropStmt(node)
    [] OTHER -> Returns(Nil, Nil)

(***************************************************************************)
(* Inputs of the Name Resolver.                                            *)
(***************************************************************************)
ListItems == {String(""), String("a"), String("b"), A_Star}
NameLists == {List(items) : items \in SeqsUpTo(ListItems, MaxParts)}
RangeVars == {RangeVar(c, s, r) : c \in Opt({"", "c"}), s \in Opt({"", "s"}), r \in Opt({"", "t"})}
NameNodes == NameLists \cup RangeVars \cup {String("a"), A_Star}

NoRet == [kind |-> "none"]

(* A Go slice: nil until something is appended to it. *)
NilSlice == [nil |-> TRUE, items |-> <<>>]

(* append putting the new statement in front. *)
appendStmt_InFront(s, v) == [nil |-> FALSE, items |-> <<v>> \o s.items]

(* stmts = append(stmts, ...) *)
appendStmt(s, v) == [nil |-> FALSE, items |-> Append(s.items, v)]

(***************************************************************************)
(* SpecName: parseTableName applied to one node.                           *)
(***************************************************************************)
InitName ==
  /\ pc = "name"
  /\ input \in NameNodes
  /\ tree = <<>>
  /\ idx = 0
  /\ stmts = NilSlice
  /\ ret = NoRet

ResolveName ==
  /\ pc = "name"
  /\ ret' = [kind |-> "name", val |-> parseTableName(input)]
  /\ pc' = "done"
  /\ UNCHANGED <<input, tree, idx, stmts>>

NextName == ResolveName

SpecName == InitName /\ [][NextName]_vars

(***************************************************************************)
(* Inputs of translate.                                                    *)
(***************************************************************************)
ConstraintLists ==
  {<<>>, <<Constraint("CONSTR_NOTNULL")>>, <<Constraint("CONSTR_DEFAULT")>>,
   <<Constraint("CONSTR_DEFAULT"), Constraint("CONSTR_PRIMARY")>>}
TypeNameLists ==
  {<<String("text")>>, <<String("pg_catalog"), String("int4")>>, <<>>, <<A_Star>>}
ColumnDefs ==
  {ColumnDefNode(Ptr("a"), Ptr(TypeNameNode(<<String("text")>>)), cons) : cons \in ConstraintLists}
  \cup {ColumnDefNode(Ptr("b"), Ptr(TypeNameNode(names)), <<>>) : names \in TypeNameLists}
  \cup {ColumnDefNode(Nil, Ptr(TypeNameNode(<<String("text")>>)), <<>>),
        ColumnDefNode(Ptr("a"), Nil, <<>>)}
TableElts == ColumnDefs \cup {Constraint("CONSTR_CHECK")}

Relations == {Ptr(RangeVar(Nil, Nil, Ptr("t"))), Ptr(RangeVar(Nil, Ptr("s"), Ptr("t")))}

AlterTableCmds ==
  {AlterTableCmdNode(st, Nil, FALSE, d) :
     st \in {"AT_AddColumn"}, d \in ColumnDefs \cup {NilNode}}
  \cup {AlterTableCmdNode(st, Ptr("a"), FALSE, d) :
     st \in {"AT_AlterColumnType"}, d \in ColumnDefs \cup {NilNode}}
  \cup {AlterTableCmdNode(st, Ptr("a"), m, NilNode) :
     st \in {"AT_DropColumn", "AT_DropNotNull", "AT_SetNotNull", "AT_AddConstraint"},
     m \in BOOLEAN}
AlterItems == AlterTableCmds \cup {A_Star}

DropObjects ==
  {List([k \in 1..n |-> String("a")]) : n \in 0..MaxParts}
  \cup {List(<<String("s"), A_Star>>), RangeVar(Nil, Nil, Ptr("t")), String("t")}

CreateStmts ==
  {CreateStmtNode(Nil, FALSE, <<>>)}
  \cup {CreateStmtNode(r, ine, elts) :
          r \in Relations, ine \in BOOLEAN, elts \in SeqsUpTo(TableElts, MaxElts)}
AlterTableStmts ==
  {AlterTableStmtNode(Nil, <<>>)}
  \cup {AlterTableStmtNode(r, cmds) : r \in Relations, cmds \in SeqsUpTo(AlterItems, MaxElts)}
DropStmts ==
  {DropStmtNode(m, rt, objs) :
     m \in BOOLEAN, rt \in {"OBJECT_TABLE", "OBJECT_VIEW", "OBJECT_INDEX"},
     objs \in SeqsUpTo(DropObjects, MaxElts)}
OtherStmts == {SelectStmtNode, [kind |-> "CreateSchemaStmt"]}

StmtNodes == CreateStmts \cup AlterTableStmts \cup DropStmts \cup OtherStmts

(***************************************************************************)
(* SpecTranslate: translate applied to one statement node.                 *)
(***************************************************************************)
InitTranslate ==
  /\ pc = "translate"
  /\ input \in StmtNodes
  /\ tree = <<>>
  /\ idx = 0
  /\ stmts = NilSlice
  /\ ret = NoRet

Translate ==
  /\ pc = "translate"
  /\ ret' = [kind |-> "translate", val |-> translate(input)]
  /\ pc' = "done"
  /\ UNCHANGED <<input, tree, idx, stmts>>

NextTranslate == Translate

SpecTranslate == InitTranslate /\ [][NextTranslate]_vars

(***************************************************************************)
(* SpecColumn: one column definition translated at each place where        *)
(* translate builds an ast.ColumnDef, and under a command that carries     *)
(* none.                                                                   *)
(***************************************************************************)
ColumnInputs ==
  {ColumnDefNode(c, tn, cons) :
     c \in Opt({"a", ""}),
     tn \in Opt({TypeNameNode(names) : names \in TypeNameLists}),
     cons \in SeqsUpTo({Constraint("CONSTR_NOTNULL"), Constraint("CONSTR_PRIMARY"),
                        Constraint("CONSTR_DEFAULT")}, MaxElts)}

RelC == Ptr(RangeVar(Nil, Nil, Ptr("t")))

InitColumn ==
  /\ pc = "column"
  /\ input \in ColumnInputs
  /\ tree = <<>>
  /\ idx = 0
  /\ stmts = NilSlice
  /\ ret = [kind |-> "column", create |-> NoRet, add |-> NoRet, alterType |-> NoRet, other |-> NoRet]

Translated(stmt) == [kind |-> "translate", val |-> translate(stmt)]

(* CREATE TABLE t (<column>) *)
AsCreateElt ==
  /\ pc = "column" /\ ret.create = NoRet
  /\ ret' = [ret EXCEPT !.create = Translated(CreateStmtNode(RelC, FALSE, <<input>>))]
  /\ UNCHANGED <<pc, input, tree, idx, stmts>>

(* ALTER TABLE t ADD COLUMN <column> *)
AsAddColumn ==
  /\ pc = "column" /\ ret.add = NoRet
  /\ ret' = [ret EXCEPT !.add = Translated(AlterTableStmtNode(RelC,
                 <<AlterTableCmdNode("AT_AddColumn", Nil, FALSE, input)>>))]
  /\ UNCHANGED <<pc, input, tree, idx, stmts>>

(* ALTER TABLE t ALTER COLUMN ... TYPE, the new type given by <column> *)
AsAlterColumnType ==
  /\ pc = "column" /\ ret.alterType = NoRet
  /\ ret' = [ret EXCEPT !.alterType = Translated(AlterTableStmtNode(RelC,
                 <<AlterTableCmdNode("AT_AlterColumnType", input.Colname, FALSE, input)>>))]
  /\ UNCHANGED <<pc, input, tree, idx, stmts>>

(* A command of one of the three subtypes that take no definition, its Def
   set all the same. *)
AsOtherCmd ==
  /\ pc = "column" /\ ret.other = NoRet
  /\ \E st \in {"AT_DropColumn", "AT_DropNotNull", "AT_SetNotNull"} :
       ret' = [ret EXCEPT !.other = Translated(AlterTableStmtNode(RelC,
                 <<AlterTableCmdNode(st, input.Colname, FALSE, input)>>))]
  /\ UNCHANGED <<pc, input, tree, idx, stmts>>

NextColumn == AsCreateElt \/ AsAddColumn \/ AsAlterColumnType \/ AsOtherCmd

SpecColumn == InitColumn /\ [][NextColumn]_vars

(***************************************************************************)
(* Inputs of Parse: a reader that fails, a text the external parser        *)
(* rejects, or a text it parses into a list of top-level nodes.            *)
(***************************************************************************)
ColA == ColumnDefNode(Ptr("a"), Ptr(TypeNameNode(<<String("pg_catalog"), String("int4")>>)), <<>>)
ColB == ColumnDefNode(Ptr("b"), Ptr(TypeNameNode(<<String("text")>>)), <<Constraint("CONSTR_NOTNULL")>>)
RelT == Ptr(RangeVar(Nil, Nil, Ptr("t")))

TopLevelNodes ==
  {RawStmt(CreateStmtNode(RelT, TRUE, <<ColA, ColB>>)),
   RawStmt(CreateStmtNode(RelT, FALSE, <<ColumnDefNode(Nil, Nil, <<>>)>>)),
   RawStmt(AlterTableStmtNode(RelT, <<AlterTableCmdNode("AT_AddColumn", Nil, FALSE, ColA)>>)),
   RawStmt(AlterTableStmtNode(RelT, <<AlterTableCmdNode("AT_AddConstraint", Nil, FALSE, NilNode)>>)),
   RawStmt(AlterTableStmtNode(RelT, <<>>)),
   RawStmt(AlterTableStmtNode(RelT,
     <<AlterTableCmdNode("AT_AddConstraint", Nil, FALSE, NilNode),
       AlterTableCmdNode("AT_DropColumn", Ptr("a"), TRUE, NilNode),
       AlterTableCmdNode("AT_ValidateConstraint", Ptr("k"), FALSE, NilNode),
       AlterTableCmdNode("AT_SetNotNull", Ptr("b"), FALSE, NilNode)>>)),
   RawStmt(AlterTableStmtNode(RelT,
     <<AlterTableCmdNode("AT_AlterColumnType", Ptr("b"), FALSE, ColB),
       AlterTableCmdNode("AT_DropNotNull", Ptr("a"), FALSE, NilNode)>>)),
   RawStmt(AlterTableStmtNode(RelT,
     <<AlterTableCmdNode("AT_AddConstraint", Nil, FALSE, NilNode),
       AlterTableCmdNode("AT_AddColumn", Nil, FALSE, NilNode)>>)),
   RawStmt(DropStmtNode(TRUE, "OBJECT_TABLE", <<List(<<String("a")>>), List(<<String("b")>>)>>)),
   RawStmt(DropStmtNode(FALSE, "OBJECT_TABLE",
                        <<List(<<String("a"), String("b"), String("c"), String("d")>>)>>)),
   RawStmt(DropStmtNode(TRUE, "OBJECT_VIEW", <<List(<<String("v")>>)>>)),
   RawStmt(DropStmtNode(FALSE, "OBJECT_INDEX", <<String("i")>>)),
   RawStmt(SelectStmtNode),
   SelectStmtNode}

Reader(e, text) == [readErr |-> e, text |-> text]
Text(e, nodes) == [syntaxErr |-> e, statements |-> nodes]

Readers ==
  {Reader(Ptr("unexpected EOF"), Text(Nil, <<>>)),
   Reader(Nil, Text(Ptr("syntax error at or near \"tabl\""), <<>>))}
  \cup {Reader(Nil, Text(Nil, nodes)) : nodes \in SeqsUpTo(TopLevelNodes, MaxStmts)}

(***************************************************************************)
(* Spec: Parser.Parse, one step per statement of its body.                 *)
(***************************************************************************)
Init ==
  /\ pc = "read"
  /\ input \in Readers
  /\ tree = <<>>
  /\ idx = 0
  /\ stmts = NilSlice
  /\ ret = NoRet

ParseReturns(s, e) == [kind |-> "parse", stmts |-> s, err |-> e]

(* The error return handing back what the loop has collected so far. *)
ReturnErr_Partial(e) == ParseReturns(stmts, e)

(* return nil, err *)
ReturnErr(e) == ParseReturns(NilSlice, e)

(* contents, err := ioutil.ReadAll(r) *)
ReadAll ==
  /\ pc = "read"
  /\ IF input.readErr # Nil
     THEN pc' = "done" /\ ret' = ReturnErr(input.readErr)
     ELSE pc' = "pgparse" /\ ret' = ret
  /\ UNCHANGED <<input, tree, idx, stmts>>

(* tree, err := pg.Parse(string(contents)); var stmts []ast.Statement *)
PgParse ==
  /\ pc = "pgparse"
  /\ IF input.text.syntaxErr # Nil
     THEN /\ pc' = "done"
          /\ ret' = ReturnErr(input.text.syntaxErr)
          /\ UNCHANGED <<tree, idx>>
     ELSE /\ pc' = "loop"
          /\ tree' = input.text.statements
          /\ idx' = 1
          /\ ret' = ret
  /\ UNCHANGED <<input, stmts>>

astStatement(n) == [Raw |-> [Stmt |-> n]]

(* One iteration of the loop over tree.Statements. *)
LoopBody ==
  /\ pc = "loop"
  /\ idx <= Len(tree)
  /\ LET stmt == tree[idx] IN
     IF stmt.kind # "RawStmt"
     THEN /\ pc' = "done"
          /\ ret' = ReturnErr(Ptr("expected RawStmt; got nodes." \o stmt.kind))
          /\ UNCHANGED <<idx, stmts>>
     ELSE LET r == translate(stmt.Stmt) IN
          IF r.panic
          THEN pc' = "panic" /\ UNCHANGED <<idx, stmts, ret>>
          ELSE IF r.err # Nil
          THEN /\ pc' = "done"
               /\ ret' = ReturnErr(r.err)
               /\ UNCHANGED <<idx, stmts>>
          ELSE /\ pc' = "loop"
               /\ idx' = idx + 1
               /\ stmts' = IF r.node # Nil THEN appendStmt(stmts, astStatement(r.node[1])) ELSE stmts
               /\ ret' = ret
  /\ UNCHANGED <<input, tree>>

(* return stmts, nil *)
LoopExit ==
  /\ pc = "loop"
  /\ idx > Len(tree)
  /\ pc' = "done"
  /\ ret' = ParseReturns(stmts, Nil)
  /\ UNCHANGED <<input, tree, idx, stmts>>

Next == ReadAll \/ PgParse \/ LoopBody \/ LoopExit

Spec == Init /\ [][Next]_vars

(***************************************************************************)
(* Properties of the Name Resolver, checked under SpecName.                *)
(***************************************************************************)
AllStrings(items) == \A k \in 1..Len(items) : items[k].kind = "String"

Resolved == pc = "done" /\ ret.kind = "name"

(* C3: for an identifier list (every item a string part) of length 1, 2 or
   3 the resolver returns, with no error, the TableName whose name / schema,
   name / catalog, schema, name are the parts in list order and whose other
   fields are unset (""); for length 0 or length 4 and more it returns no
   TableName and an error. *)
C3_ListResolution ==
  (Resolved /\ input.kind = "List" /\ AllStrings(input.Items)) =>
    LET it == input.Items
        n == Len(it)
        r == ret.val
    IN /\ n = 1 => r.err = Nil /\ r.name = Ptr([Catalog |-> "", Schema |-> "", Name |-> it[1].Str])
       /\ n = 2 => r.err = Nil /\ r.name = Ptr([Catalog |-> "", Schema |-> it[1].Str, Name |-> it[2].Str])
       /\ n = 3 => r.err = Nil /\ r.name = Ptr([Catalog |-> it[1].Str, Schema |-> it[2].Str, Name |-> it[3].Str])
       /\ n \notin {1, 2, 3} => r.name = Nil /\ r.err # Nil

(* A four-part identifier list has been rejected. *)
C3_Witness ==
  /\ Resolved /\ input.kind = "List" /\ AllStrings(input.Items)
  /\ Len(input.Items) = 4
  /\ ret.val.name = Nil /\ ret.val.err = Ptr("invalid table name: a.b.a.b")

WithSchema(rv, s) == [rv EXCEPT !.Schemaname = s]
WithCatalog(rv, c) == [rv EXCEPT !.Catalogname = c]

FieldCopied(p, f) == IF p = Nil THEN f = "" ELSE f = p[1]

CopiesRangeVar ==
  /\ ret.val.err = Nil
  /\ ret.val.name # Nil
  /\ FieldCopied(input.Catalogname, ret.val.name[1].Catalog)
  /\ FieldCopied(input.Schemaname, ret.val.name[1].Schema)
  /\ FieldCopied(input.Relname, ret.val.name[1].Name)

(* C4 as stated: a relation reference is copied field by field, and a
   reference with an absent schema (or catalog) resolves to a TableName
   different from that of the same reference with a present empty-string
   schema (or catalog). *)
C4_AbsentDiffersFromEmpty ==
  (Resolved /\ input.kind = "RangeVar") =>
    /\ CopiesRangeVar
    /\ input.Schemaname = Nil =>
         ret.val.name # parseTableName(WithSchema(input, Ptr(""))).name
    /\ input.Catalogname = Nil =>
         ret.val.name # parseTableName(WithCatalog(input, Ptr(""))).name

(* C4 amended: a relation reference is copied field by field, an absent
   field is left as the empty string, and so a reference with an absent
   schema (or catalog) resolves to the same TableName as the reference with
   a present empty-string schema (or catalog). *)
C4_AbsentIsEmptyString ==
  (Resolved /\ input.kind = "RangeVar") =>
    /\ CopiesRangeVar
    /\ input.Schemaname = Nil =>
         /\ ret.val.name[1].Schema = ""
         /\ ret.val.name = parseTableName(WithSchema(input, Ptr(""))).name
    /\ input.Catalogname = Nil =>
         /\ ret.val.name[1].Catalog = ""
         /\ ret.val.name = parseTableName(WithCatalog(input, Ptr(""))).name

(* A reference with a catalog, no schema and a name has been resolved. *)
C4_Witness ==
  /\ Resolved /\ input.kind = "RangeVar"
  /\ input.Catalogname = Ptr("c") /\ input.Schemaname = Nil /\ input.Relname = Ptr("t")
  /\ ret.val.name = Ptr([Catalog |-> "c", Schema |-> "", Name |-> "t"])

(***************************************************************************)
(* Properties of Parse, checked under Spec.                                *)
(***************************************************************************)
SupportedKinds == {"AlterTableStmt", "CreateStmt", "DropStmt"}

ParseDone == pc = "done" /\ ret.kind = "parse"

Accepted == input.readErr = Nil /\ input.text.syntaxErr = Nil

(* Every top-level element is a raw-statement wrapper and translate returns
   on each of them with no error. *)
AllTranslate ==
  \A k \in 1..Len(input.text.statements) :
    LET s == input.text.statements[k] IN
    /\ s.kind = "RawStmt"
    /\ ~translate(s.Stmt).panic
    /\ translate(s.Stmt).err = Nil

IsSupported(s) == s.kind = "RawStmt" /\ s.Stmt.kind \in SupportedKinds

(* C1: for a document the external parser accepts and whose statements all
   translate without error, Parse does not fault and returns, with no
   error, one statement per supported top-level statement (CREATE TABLE,
   ALTER TABLE, DROP), the i-th being the translation of the i-th supported
   one in source order; the output length is the number of statements for
   which translate gave a non-nil node. *)
C1_ParseOutput ==
  (Accepted /\ AllTranslate) =>
    /\ pc # "panic"
    /\ ParseDone =>
         LET sup == SelectSeq(input.text.statements, IsSupported)
             out == ret.stmts.items
         IN /\ ret.err = Nil
            /\ Len(out) = Len(sup)
            /\ \A k \in 1..Len(sup) : out[k] = [Raw |-> [Stmt |-> translate(sup[k].Stmt).node[1]]]
            /\ Len(out) = Cardinality({k \in 1..Len(input.text.statements) :
                                         translate(input.text.statements[k].Stmt).node # Nil})

(* Parse has returned only the CREATE TABLE of a document whose second
   statement is unsupported. *)
C1_Witness ==
  /\ ParseDone /\ ret.err = Nil
  /\ Len(input.text.statements) = 2
  /\ input.text.statements[1].kind = "RawStmt"
  /\ input.text.statements[1].Stmt.kind = "CreateStmt"
  /\ input.text.statements[2] = RawStmt(SelectStmtNode)
  /\ Len(ret.stmts.items) = 1
  /\ ret.stmts.items[1].Raw.Stmt.kind = "CreateTableStmt"
  /\ Len(ret.stmts.items[1].Raw.Stmt.Cols) = 2

(* C2: whenever Parse returns an error the returned statement sequence is
   nil, whatever the loop had collected before the failing statement. *)
C2_ErrorReturnsNil ==
  (ParseDone /\ ret.err # Nil) => ret.stmts = [nil |-> TRUE, items |-> <<>>]

(* Parse has returned a translation error raised by the second statement,
   after the first had been translated and collected. *)
C2_Witness ==
  /\ ParseDone /\ ret.err = Ptr("invalid table name: a.b.c.d")
  /\ idx = 2 /\ Len(stmts.items) = 1
  /\ ret.stmts.nil

(* The loop is about to translate tree[idx], a raw-statement wrapper. *)
AtRawStmt == pc = "loop" /\ idx <= Len(tree) /\ tree[idx].kind = "RawStmt"

SupportedSubtypes ==
  {"AT_AddColumn", "AT_AlterColumnType", "AT_DropColumn", "AT_DropNotNull", "AT_SetNotNull"}

IsSupportedCmd(c) == c.kind = "AlterTableCmd" /\ c.Subtype \in SupportedSubtypes

(* The parser's shape guarantees for ALTER TABLE: a relation, and a column
   definition with a name and a type under every ADD COLUMN / ALTER COLUMN
   TYPE command. *)
WellFormedAlter(s) ==
  /\ s.Relation # Nil
  /\ \A k \in 1..Len(s.Cmds) :
       (s.Cmds[k].kind = "AlterTableCmd" /\ s.Cmds[k].Subtype \in {"AT_AddColumn", "AT_AlterColumnType"}) =>
         /\ s.Cmds[k].Def.kind = "ColumnDef"
         /\ s.Cmds[k].Def.Colname # Nil
         /\ s.Cmds[k].Def.TypeName # Nil

(* C5: the loop iteration on an ALTER TABLE statement never ends in an
   error, whatever unsupported commands it holds: it appends to the output
   one AlterTableStmt whose commands are the supported commands of the
   source (subtype AddColumn, AlterColumnType, DropColumn, DropNotNull or
   SetNotNull) in their order, each with its subtype, column name and
   missingOk flag; with no supported command the appended statement has an
   empty command list. *)
C5_AlterSkipsUnsupported ==
  [][(AtRawStmt /\ tree[idx].Stmt.kind = "AlterTableStmt" /\ WellFormedAlter(tree[idx].Stmt)) =>
       LET sup == SelectSeq(tree[idx].Stmt.Cmds, IsSupportedCmd)
           n == Len(stmts.items)
       IN /\ pc' = "loop" /\ idx' = idx + 1
          /\ ~stmts'.nil
          /\ Len(stmts'.items) = n + 1
          /\ SubSeq(stmts'.items, 1, n) = stmts.items
          /\ LET at == stmts'.items[n + 1].Raw.Stmt
             IN /\ at.kind = "AlterTableStmt"
                /\ Len(at.Cmds) = Len(sup)
                /\ \A k \in 1..Len(sup) :
                     /\ at.Cmds[k].Subtype = sup[k].Subtype
                     /\ at.Cmds[k].Name = sup[k].Name
                     /\ at.Cmds[k].MissingOk = sup[k].MissingOk]_vars

(* An ALTER TABLE with only an unsupported command and one mixing supported
   and unsupported commands have both been collected. *)
C5_Witness ==
  /\ pc = "loop" /\ idx = 3 /\ Len(tree) = 2
  /\ tree[1].kind = "RawStmt" /\ tree[1].Stmt.kind = "AlterTableStmt"
  /\ Len(tree[1].Stmt.Cmds) = 1 /\ tree[1].Stmt.Cmds[1].Subtype = "AT_AddConstraint"
  /\ tree[2].kind = "RawStmt" /\ tree[2].Stmt.kind = "AlterTableStmt"
  /\ Len(tree[2].Stmt.Cmds) = 4
  /\ Len(stmts.items) = 2
  /\ stmts.items[1].Raw.Stmt.kind = "AlterTableStmt"
  /\ stmts.items[1].Raw.Stmt.Cmds = <<>>
  /\ stmts.items[2].Raw.Stmt.Cmds =
       <<[Subtype |-> "AT_DropColumn", Name |-> Ptr("a"), MissingOk |-> TRUE, Def |-> Nil],
         [Subtype |-> "AT_SetNotNull", Name |-> Ptr("b"), MissingOk |-> FALSE, Def |-> Nil]>>

(* C10: the loop iteration on a DROP whose removal kind is not "table"
   appends a DropTableStmt with an empty table list and the source's
   missing-ok flag as ifExists; an iteration that goes on to the next
   statement leaves the output as it was exactly when the statement is not
   an ALTER TABLE, a CREATE TABLE or a DROP. *)
C10_NonTableDropEmitted ==
  [][AtRawStmt =>
       LET s == tree[idx].Stmt IN
       /\ (s.kind = "DropStmt" /\ s.RemoveType # "OBJECT_TABLE") =>
            /\ pc' = "loop" /\ idx' = idx + 1
            /\ stmts' = [nil |-> FALSE,
                         items |-> Append(stmts.items,
                           [Raw |-> [Stmt |-> [kind |-> "DropTableStmt",
                                               IfExists |-> s.MissingOk, Tables |-> <<>>]]])]
       /\ pc' = "loop" => (stmts' = stmts <=> s.kind \notin SupportedKinds)]_vars

(* A DROP VIEW IF EXISTS following an unsupported statement has been
   collected as the first output statement. *)
C10_Witness ==
  /\ pc = "loop" /\ idx = 3 /\ Len(tree) = 2
  /\ tree[1] = RawStmt(SelectStmtNode)
  /\ tree[2].kind = "RawStmt" /\ tree[2].Stmt.kind = "DropStmt"
  /\ tree[2].Stmt.RemoveType = "OBJECT_VIEW"
  /\ stmts.items = <<[Raw |-> [Stmt |-> [kind |-> "DropTableStmt", IfExists |-> TRUE, Tables |-> <<>>]]]>>

(***************************************************************************)
(* Properties of translate, checked under SpecTranslate and SpecColumn.    *)
(***************************************************************************)
TranslateDone == pc = "done" /\ ret.kind = "translate"

FirstFailing(objs) ==
  CHOOSE k \in 1..Len(objs) :
    /\ parseTableName(objs[k]).err # Nil
    /\ \A j \in 1..(k - 1) : parseTableName(objs[j]).err = Nil

(* C6: translate of a DROP statement does not fault.  With removal kind
   "table" and every object resolving, it returns a DropTableStmt whose
   ifExists is the source's missing-ok flag and whose tables are the
   resolved names of the objects in source order (the first object that
   does not resolve makes it return that error and no statement).  With any
   other removal kind it returns, with no error and whatever the objects
   are, a DropTableStmt with that flag and no table. *)
C6_DropTables ==
  (TranslateDone /\ input.kind = "DropStmt") =>
    LET objs == input.Objects
        r == ret.val
        resolves == \A k \in 1..Len(objs) : parseTableName(objs[k]).err = Nil
    IN /\ ~r.panic
       /\ input.RemoveType # "OBJECT_TABLE" =>
            /\ r.err = Nil
            /\ r.node = Ptr([kind |-> "DropTableStmt", IfExists |-> input.MissingOk, Tables |-> <<>>])
       /\ (input.RemoveType = "OBJECT_TABLE" /\ resolves) =>
            /\ r.err = Nil
            /\ r.node # Nil
            /\ r.node[1].kind = "DropTableStmt"
            /\ r.node[1].IfExists = input.MissingOk
            /\ r.node[1].Tables = [k \in 1..Len(objs) |-> parseTableName(objs[k]).name[1]]
       /\ (input.RemoveType = "OBJECT_TABLE" /\ ~resolves) =>
            /\ r.node = Nil
            /\ r.err = parseTableName(objs[FirstFailing(objs)]).err

(* DROP TABLE IF EXISTS a, a.a has been translated. *)
C6_Witness ==
  /\ TranslateDone /\ input.kind = "DropStmt"
  /\ input.RemoveType = "OBJECT_TABLE" /\ input.MissingOk
  /\ input.Objects = <<List(<<String("a")>>), List(<<String("a"), String("a")>>)>>
  /\ ret.val.node = Ptr([kind |-> "DropTableStmt", IfExists |-> TRUE,
                         Tables |-> <<[Catalog |-> "", Schema |-> "", Name |-> "a"],
                                      [Catalog |-> "", Schema |-> "a", Name |-> "a"]>>])

IsColumnDef(e) == e.kind = "ColumnDef"

(* The parser's shape guarantees for CREATE TABLE: a relation, and a name
   and a type in every column definition. *)
WellFormedCreate(s) ==
  /\ s.Relation # Nil
  /\ \A k \in 1..Len(s.TableElts) :
       IsColumnDef(s.TableElts[k]) =>
         s.TableElts[k].Colname # Nil /\ s.TableElts[k].TypeName # Nil

(* C7: translate of a CREATE TABLE statement returns, with no error, a
   CreateTableStmt whose ifNotExists is the source flag and whose columns
   are one ColumnDef per column-definition element of the element list, in
   their relative order; elements of another kind give no column and no
   error. *)
C7_CreateColumns ==
  (TranslateDone /\ input.kind = "CreateStmt" /\ WellFormedCreate(input)) =>
    LET defs == SelectSeq(input.TableElts, IsColumnDef)
        r == ret.val
    IN /\ ~r.panic
       /\ r.err = Nil
       /\ r.node # Nil
       /\ r.node[1].kind = "CreateTableStmt"
       /\ r.node[1].IfNotExists = input.IfNotExists
       /\ Len(r.node[1].Cols) = Len(defs)
       /\ \A k \in 1..Len(defs) :
            /\ r.node[1].Cols[k].Colname = defs[k].Colname[1]
            /\ r.node[1].Cols[k].TypeName.Name = join(defs[k].TypeName[1].Names, ".")

(* CREATE TABLE IF NOT EXISTS with a table constraint followed by a column
   has been translated into a statement with that one column. *)
C7_Witness ==
  /\ TranslateDone /\ input.kind = "CreateStmt" /\ input.IfNotExists
  /\ Len(input.TableElts) = 2
  /\ input.TableElts[1].kind = "Constraint"
  /\ input.TableElts[2].kind = "ColumnDef"
  /\ ret.val.node # Nil
  /\ ret.val.node[1].IfNotExists
  /\ ret.val.node[1].Cols = <<[Colname |-> "b", TypeName |-> [Name |-> "pg_catalog.int4"], IsNotNull |-> FALSE]>>

NonEmptyColumnDef(d) == d.Colname # "" /\ d.TypeName.Name # ""

(* C8: every ColumnDef of a statement translate returns (a column of a
   CreateTableStmt, the Def of an AlterTableCmd) has a non-empty name and a
   non-empty typeName. *)
C8_ColumnDefsNonEmpty ==
  (TranslateDone /\ ~ret.val.panic /\ ret.val.node # Nil) =>
    LET n == ret.val.node[1] IN
    /\ n.kind = "CreateTableStmt" => \A k \in 1..Len(n.Cols) : NonEmptyColumnDef(n.Cols[k])
    /\ n.kind = "AlterTableStmt" =>
         \A k \in 1..Len(n.Cmds) : n.Cmds[k].Def # Nil => NonEmptyColumnDef(n.Cmds[k].Def[1])

AllSites == ret.create # NoRet /\ ret.add # NoRet /\ ret.alterType # NoRet

(* C9: one column-definition node gives the same ColumnDef at the three
   places: as an element of CREATE TABLE, as the Def of an AddColumn command
   and as the Def of an AlterColumnType command (name, dot-joined typeName,
   isNotNull of the shared predicate), and the three fault on the same
   nodes; a DropColumn, DropNotNull or SetNotNull command carries no
   ColumnDef. *)
C9_SameColumnEverywhere ==
  (pc = "column" /\ ret.kind = "column") =>
    /\ AllSites =>
         /\ ret.create.val.panic = ret.add.val.panic
         /\ ret.create.val.panic = ret.alterType.val.panic
         /\ ~ret.create.val.panic =>
              LET d == ret.create.val.node[1].Cols[1] IN
              /\ ret.add.val.node[1].Cmds[1].Subtype = "AT_AddColumn"
              /\ ret.add.val.node[1].Cmds[1].Def = Ptr(d)
              /\ ret.alterType.val.node[1].Cmds[1].Subtype = "AT_AlterColumnType"
              /\ ret.alterType.val.node[1].Cmds[1].Def = Ptr(d)
              /\ d.IsNotNull = isNotNull(input)
    /\ ret.other # NoRet =>
         /\ ~ret.other.val.panic
         /\ ret.other.val.node[1].Cmds[1].Subtype \in {"AT_DropColumn", "AT_DropNotNull", "AT_SetNotNull"}
         /\ ret.other.val.node[1].Cmds[1].Def = Nil

(* A primary-key column of a schema-qualified type has been translated at
   the three places. *)
C9_Witness ==
  /\ pc = "column" /\ ret.kind = "column" /\ AllSites /\ ret.other # NoRet
  /\ input.Constraints = <<Constraint("CONSTR_DEFAULT"), Constraint("CONSTR_PRIMARY")>>
  /\ ~ret.alterType.val.panic
  /\ ret.alterType.val.node[1].Cmds[1].Def =
       Ptr([Colname |-> "a", TypeName |-> [Name |-> "pg_catalog.int4"], IsNotNull |-> TRUE])

=============================================================================
